---------------------------- MODULE Spec2Model ----------------------------
(***************************************************************************)
(* A model of petl's source abstraction (petl/io/sources.py) and of its    *)
(* HTML writer (petl/io/html.py).                                          *)
(*                                                                         *)
(* Three specifications share the variables:                               *)
(*   SpecResolve  the factories read_source_from_arg/write_source_from_arg *)
(*                and open_ of the targets they return;                    *)
(*   SpecString   one StringSource object through a sequence of open_      *)
(*                scopes, writes and getvalue();                           *)
(*   SpecHtml     tohtml (eager) and the iteration of a teehtml table.     *)
(* Python strings are TLA+ strings; startswith, endswith, `in' and the     *)
(* writes of a StringIO are computed on their characters.                  *)
(***************************************************************************)
EXTENDS Naturals, Sequences, FiniteSets, TLC

VARIABLES
    \* ---- SpecResolve
    arg,        \* the argument handed to the factory
    factory,    \* the factory called: "read", "write" ("" before the call)
    target,     \* what the factory returned (or the error it raised)
    rpc,        \* "arg", "resolved", "failed", "open", "openfailed", "closed"
    rmode,      \* the mode handed to open_
    stream,     \* the stream the open scope yielded ("" when none)
    operr,      \* the error raised on entering the open scope ("" when none)
    requests,   \* urlopen calls issued
    spawned,    \* subprocess.Popen calls issued
    rcloses,    \* close() calls on the yielded streams
    attempts,   \* open scopes the caller tried to enter
    entered,    \* open scopes the caller did enter
    \* ---- SpecString
    s,          \* StringSource.s
    buffer,     \* StringSource.buffer
    dropped,    \* the buffer object self.buffer held before the last open_
    scope,      \* the mode of the open scope the caller is in ("" when none)
    log,        \* the last open_ calls: mode, outcome, what was written
    nopens,     \* open_ calls made so far
    \* ---- SpecHtml
    table,      \* the rows of the table, header first
    source,     \* the source argument of tohtml/teehtml
    caption, representation, lineterminator,
    pc,         \* "init", "eager_done", "eager_failed", "tee_start",
                \* "tee_yield", "tee_done", "tee_failed", "tee_closed"
    f,          \* the opened target stream: what was written, its closes
    pulled,     \* rows pulled from iter(table) so far
    yielded,    \* rows the consumer of the teehtml table has received
    raised,     \* the error the row sequence raised ("" when none)
    err,        \* the error that reached the caller ("" when none)
    exits       \* exits of the `with source.open_(...)' scope

resolveVars == <<arg, factory, target, rpc, rmode, stream, operr, requests, spawned,
                 rcloses, attempts, entered>>
stringVars  == <<s, buffer, dropped, scope, log, nopens>>
htmlVars    == <<table, source, caption, representation, lineterminator,
                 pc, f, pulled, yielded, raised, err, exits>>
vars        == <<resolveVars, stringVars, htmlVars>>

-----------------------------------------------------------------------------
(* Python values *)

NoneVal == [t |-> "none", v |-> "None"]
Str(x)  == [t |-> "str", v |-> x]

\* str.startswith
StartsWith(x, p) ==
    Len(x) >= Len(p) /\ SubSeq(x, 1, Len(p)) = p

\* str.endswith
EndsWith(x, p) ==
    Len(x) >= Len(p) /\ SubSeq(x, Len(x) - Len(p) + 1, Len(x)) = p

\* `c in x' for a one-character c
In(c, x) ==
    \E i \in 1..Len(x) : SubSeq(x, i, i) = c

-----------------------------------------------------------------------------
(* The factories: read_source_from_arg and write_source_from_arg *)

\* An argument: its type, its value (a string's characters, another value's
\* repr), whether it has an attribute open_ ("absent", "attr": there but not
\* callable, "method"), and for a tuple the reprs of its items.
NoneArg == [t |-> "none", v |-> "None", open_ |-> "absent", items |-> <<>>]
StrArg(p) == [t |-> "str", v |-> p, open_ |-> "absent", items |-> <<>>]
ObjArg(r, o) == [t |-> "obj", v |-> r, open_ |-> o, items |-> <<>>]
TupleArg(r, xs) == [t |-> "tuple", v |-> r, open_ |-> "absent", items |-> xs]

Schemes == {"", "http://", "https://", "ftp://", "file://", "xhttp://"}
Stems == {"", "t", "a.gz."}
Suffixes == {"", ".gz", ".bgz", ".bz2", ".html", "gz", ".GZ", ".bz"}
Paths == {a \o b \o c : a \in Schemes, b \in Stems, c \in Suffixes}

Objects ==
    { ObjArg("PopenSource", "method"), ObjArg("StringSource", "method"),
      ObjArg("42", "absent"), ObjArg("['t.gz']", "absent"),
      ObjArg("b't.gz'", "absent"), ObjArg("Namespace(open_=1)", "attr"),
      TupleArg("()", <<>>), TupleArg("('t.gz',)", <<"'t.gz'">>),
      TupleArg("('t', 'r')", <<"'t'", "'r'">>) }

Args == {NoneArg} \cup {StrArg(p) : p \in Paths} \cup Objects

\* What a factory call comes to: an exception (exc, msg), or a source of
\* class cls built from init; same: the argument itself was returned.
Source(c, a) == [exc |-> "", msg |-> "", cls |-> c, init |-> a, same |-> FALSE]
AsIs(a) == [exc |-> "", msg |-> "", cls |-> a.v, init |-> a, same |-> TRUE]
Raise(e, m) == [exc |-> e, msg |-> m, cls |-> "", init |-> NoneArg, same |-> FALSE]
NoTarget == Raise("", "")

_invalid_source_msg ==
    "invalid source argument, expected None or a string or an object implementing open_(), found "

\* _invalid_source_msg % source: a tuple on the right of % is the tuple of
\* the format's arguments, any other value is its one argument.
InvalidSourceError(a) ==
    IF a.t = "tuple"
    THEN IF Len(a.items) = 1
         THEN Raise("AssertionError", _invalid_source_msg \o a.items[1])
         ELSE IF Len(a.items) = 0
              THEN Raise("TypeError", "not enough arguments for format string")
              ELSE Raise("TypeError", "not all arguments converted during string formatting")
    ELSE Raise("AssertionError", _invalid_source_msg \o a.v)

\* assert hasattr(source, 'open_') and callable(getattr(source, 'open_')), msg
\* return source
AssertOpenable(a) ==
    IF a.open_ = "method" THEN AsIs(a) ELSE InvalidSourceError(a)

IsURL(p) ==
    \E scheme \in {"http://", "https://", "ftp://"} : StartsWith(p, scheme)

\* the suffix rules both factories share
SuffixSource(a) ==
    IF EndsWith(a.v, ".gz") \/ EndsWith(a.v, ".bgz") THEN Source("GzipSource", a)
    ELSE IF EndsWith(a.v, ".bz2") THEN Source("BZ2Source", a)
    ELSE Source("FileSource", a)

read_source_from_arg(a) ==
    IF a.t = "none" THEN Source("StdinSource", a)
    ELSE IF a.t = "str"
    THEN IF IsURL(a.v) THEN Source("URLSource", a) ELSE SuffixSource(a)
    ELSE AssertOpenable(a)

write_source_from_arg(a) ==
    IF a.t = "none" THEN Source("StdoutSource", a)
    ELSE IF a.t = "str" THEN SuffixSource(a)
    ELSE AssertOpenable(a)

-----------------------------------------------------------------------------
(* open_ of the targets *)

Modes == {"r", "rb", "rU", "r+", "w", "wb", "w+", "a", "ab", "a+"}

\* The open mode's kind, as Python's open() reads a mode: the one of r, w, a
\* it holds.
IsReadMode(m) == In("r", m)
IsWriteMode(m) == In("w", m)
IsAppendMode(m) == In("a", m)

\* What entering an open scope comes to: an exception, or the stream yielded;
\* req and proc count the urlopen and Popen calls made on the way.
Yield(x, r, p) == [exc |-> "", msg |-> "", stream |-> x, req |-> r, proc |-> p]
OpenError(e, m) == [exc |-> e, msg |-> m, stream |-> "", req |-> 0, proc |-> 0]

\* StdinSource.open_ rejecting only the modes with a w
StdinSource_open_AppendAllowed(mode) ==
    IF In("w", mode) THEN OpenError("Exception", "source is read-only")
    ELSE Yield("sys.stdin", 0, 0)

StdinSource_open_(mode) ==
    IF ~StartsWith(mode, "r") THEN OpenError("Exception", "source is read-only")
    ELSE Yield("sys.stdin", 0, 0)

StdoutSource_open_(mode) ==
    IF StartsWith(mode, "r") THEN OpenError("Exception", "source is write-only")
    ELSE Yield("sys.stdout", 0, 0)

URLSource_open_(mode) ==
    IF ~StartsWith(mode, "r") THEN OpenError("Exception", "source is read-only")
    ELSE Yield("urlopen", 1, 0)

PopenSource_open_(mode) ==
    IF ~StartsWith(mode, "r") THEN OpenError("Exception", "source is read-only")
    ELSE Yield("proc.stdout", 0, 1)

\* FileSource, GzipSource, BZ2Source: the platform's open with the mode given
PlatformSource_open_(cls, mode) ==
    Yield(cls, 0, 0)

Enterable == {"StdinSource", "StdoutSource", "URLSource", "PopenSource",
              "FileSource", "GzipSource", "BZ2Source"}

open_(cls, mode) ==
    CASE cls = "StdinSource" -> StdinSource_open_(mode)
      [] cls = "StdoutSource" -> StdoutSource_open_(mode)
      [] cls = "URLSource" -> URLSource_open_(mode)
      [] cls = "PopenSource" -> PopenSource_open_(mode)
      [] OTHER -> PlatformSource_open_(cls, mode)

\* Whether leaving the open scope closes the stream: the finally clauses of
\* GzipSource and URLSource, and the file object's own __exit__ for
\* FileSource and BZ2Source; stdin, stdout and a pipe of Popen are left open.
ClosesOnExit(cls) ==
    cls \in {"FileSource", "GzipSource", "BZ2Source", "URLSource"}


-----------------------------------------------------------------------------
(* SpecResolve: a factory call, then open scopes on the target it returned *)

MaxOpens == 2

ResolveIdle ==
    /\ arg = NoneArg /\ factory = "" /\ target = NoTarget /\ rpc = "idle"
    /\ rmode = "" /\ stream = "" /\ operr = ""
    /\ requests = 0 /\ spawned = 0 /\ rcloses = 0 /\ attempts = 0 /\ entered = 0

InitResolve ==
    /\ arg \in Args /\ factory = "" /\ target = NoTarget /\ rpc = "arg"
    /\ rmode = "" /\ stream = "" /\ operr = ""
    /\ requests = 0 /\ spawned = 0 /\ rcloses = 0 /\ attempts = 0 /\ entered = 0

Resolved(fac, t) ==
    /\ rpc = "arg"
    /\ factory' = fac
    /\ target' = t
    /\ rpc' = IF t.exc = "" THEN "resolved" ELSE "failed"
    /\ UNCHANGED <<arg, rmode, stream, operr, requests, spawned, rcloses,
                   attempts, entered>>
    /\ UNCHANGED <<stringVars, htmlVars>>

ReadSourceFromArg == Resolved("read", read_source_from_arg(arg))

WriteSourceFromArg == Resolved("write", write_source_from_arg(arg))

\* with source.open_(mode) as f: up to the yield of the context manager
Enter ==
    /\ rpc \in {"resolved", "openfailed", "closed"}
    /\ target.cls \in Enterable
    /\ attempts < MaxOpens
    /\ \E mode \in Modes :
         LET r == open_(target.cls, mode) IN
         /\ rmode' = mode
         /\ attempts' = attempts + 1
         /\ requests' = requests + r.req
         /\ spawned' = spawned + r.proc
         /\ stream' = r.stream
         /\ operr' = r.msg
         /\ rpc' = IF r.exc = "" THEN "open" ELSE "openfailed"
         /\ entered' = IF r.exc = "" THEN entered + 1 ELSE entered
    /\ UNCHANGED <<arg, factory, target, rcloses>>
    /\ UNCHANGED <<stringVars, htmlVars>>

\* the end of the with block: what follows the yield
Exit ==
    /\ rpc = "open"
    /\ rpc' = "closed"
    /\ rcloses' = IF ClosesOnExit(target.cls) THEN rcloses + 1 ELSE rcloses
    /\ UNCHANGED <<arg, factory, target, rmode, stream, operr, requests,
                   spawned, attempts, entered>>
    /\ UNCHANGED <<stringVars, htmlVars>>

NextResolve == ReadSourceFromArg \/ WriteSourceFromArg \/ Enter \/ Exit


-----------------------------------------------------------------------------
(* StringSource *)

\* A StringIO or BytesIO object: id tells the objects apart, pos is the
\* stream position; kind "None" stands for None.
NoBuffer == [kind |-> "None", id |-> 0, data |-> "", pos |-> 0, closed |-> FALSE]
NewBuffer(k, i, x) == [kind |-> k, id |-> i, data |-> x, pos |-> 0, closed |-> FALSE]

\* BytesIO(...) if 'b' in mode else StringIO(...)
BufferFor(mode, i, x) ==
    NewBuffer(IF In("b", mode) THEN "BytesIO" ELSE "StringIO", i, x)

\* buffer.write(x): x replaces what is at the position and extends the data
BufferWrite(b, x) ==
    LET end == b.pos + Len(x)
        tail == IF end < Len(b.data) THEN SubSeq(b.data, end + 1, Len(b.data)) ELSE ""
    IN  [b EXCEPT !.data = SubSeq(b.data, 1, b.pos) \o x \o tail, !.pos = end]

\* What StringSource.open_ comes to, up to its yield: the exception raised or
\* the buffer yielded (self.buffer after the call), and old: the object
\* self.buffer held before, as the call left it.
SOpened(b, o) == [exc |-> "", msg |-> "", buffer |-> b, old |-> o]
SRaised(e, m, b) == [exc |-> e, msg |-> m, buffer |-> b, old |-> b]

\* StringSource.open_ with an append branch that always starts a new buffer
StringSource_open_AppendFresh(self_s, self_buffer, mode, i) ==
    IF In("r", mode)
    THEN IF self_s # NoneVal
         THEN SOpened(BufferFor(mode, i, self_s.v), self_buffer)
         ELSE SRaised("Exception", "no string data supplied", self_buffer)
    ELSE IF In("w", mode)
    THEN SOpened(BufferFor(mode, i, ""),
                 IF self_buffer # NoBuffer
                 THEN [self_buffer EXCEPT !.closed = TRUE] ELSE self_buffer)
    ELSE SOpened(BufferFor(mode, i, ""), self_buffer)

\* StringSource.open_ refusing to write when no content was supplied
StringSource_open_ReadOnlyWithoutContent(self_s, self_buffer, mode, i) ==
    IF In("r", mode)
    THEN IF self_s # NoneVal
         THEN SOpened(BufferFor(mode, i, self_s.v), self_buffer)
         ELSE SRaised("Exception", "no string data supplied", self_buffer)
    ELSE IF self_s = NoneVal
    THEN SRaised("Exception", "source is read-only", self_buffer)
    ELSE IF In("w", mode)
    THEN SOpened(BufferFor(mode, i, ""),
                 IF self_buffer # NoBuffer
                 THEN [self_buffer EXCEPT !.closed = TRUE] ELSE self_buffer)
    ELSE SOpened(self_buffer, self_buffer)

\* StringSource.open_ with a read branch that keeps a buffer it finds
StringSource_open_ReadReuses(self_s, self_buffer, mode, i) ==
    IF In("r", mode)
    THEN IF self_s # NoneVal
         THEN IF self_buffer = NoBuffer
              THEN SOpened(BufferFor(mode, i, self_s.v), self_buffer)
              ELSE SOpened(self_buffer, self_buffer)
         ELSE SRaised("Exception", "no string data supplied", self_buffer)
    ELSE IF In("w", mode)
    THEN SOpened(BufferFor(mode, i, ""),
                 IF self_buffer # NoBuffer
                 THEN [self_buffer EXCEPT !.closed = TRUE] ELSE self_buffer)
    ELSE SOpened(self_buffer, self_buffer)

StringSource_open_(self_s, self_buffer, mode, i) ==
    IF In("r", mode)
    THEN IF self_s # NoneVal
         THEN SOpened(BufferFor(mode, i, self_s.v), self_buffer)
         ELSE SRaised("Exception", "no string data supplied", self_buffer)
    ELSE IF In("w", mode)
    THEN SOpened(BufferFor(mode, i, ""),
                 IF self_buffer # NoBuffer
                 THEN [self_buffer EXCEPT !.closed = TRUE] ELSE self_buffer)
    ELSE IF In("a", mode)
    THEN IF self_buffer = NoBuffer
         \* if 'b' in self.buffer: with self.buffer None
         THEN SRaised("TypeError", "argument of type 'NoneType' is not iterable",
                      self_buffer)
         ELSE SOpened(self_buffer, self_buffer)
    ELSE SOpened(self_buffer, self_buffer)

\* StringSource.getvalue
getvalue(self_buffer) ==
    IF self_buffer # NoBuffer THEN Str(self_buffer.data) ELSE NoneVal

-----------------------------------------------------------------------------
(* SpecString: one StringSource through open scopes *)

MaxScopes == 3
MaxLen == 3
Contents == {NoneVal, Str(""), Str("ab")}
StringModes == {"r", "rb", "w", "wb", "a", "ab"}
Chunks == {"x", "yz"}

StringIdle ==
    /\ s = NoneVal /\ buffer = NoBuffer /\ dropped = NoBuffer
    /\ scope = "" /\ log = <<>> /\ nopens = 0

\* StringSource(s): self.s = s, self.buffer = None
InitString ==
    /\ s \in Contents /\ buffer = NoBuffer /\ dropped = NoBuffer
    /\ scope = "" /\ log = <<>> /\ nopens = 0

\* the last two open_ calls
Keep(l, e) == IF Len(l) = 0 THEN <<e>> ELSE <<l[Len(l)], e>>

SOpen ==
    /\ scope = ""
    /\ nopens < MaxScopes
    /\ \E mode \in StringModes :
         LET r == StringSource_open_(s, buffer, mode, nopens + 1) IN
         /\ buffer' = r.buffer
         /\ dropped' = r.old
         /\ scope' = IF r.exc = "" THEN mode ELSE ""
         /\ log' = Keep(log, [mode |-> mode, exc |-> r.exc, msg |-> r.msg,
                              written |-> "", prev |-> buffer])
    /\ nopens' = nopens + 1
    /\ UNCHANGED s
    /\ UNCHANGED <<resolveVars, htmlVars>>

\* f.write(x) in a scope opened for writing or appending
SWrite ==
    /\ scope # "" /\ ~In("r", scope)
    /\ buffer # NoBuffer
    /\ \E x \in Chunks :
         /\ Len(buffer.data) + Len(x) <= MaxLen
         /\ buffer' = BufferWrite(buffer, x)
         /\ log' = [log EXCEPT ![Len(log)].written = @ \o x]
    /\ UNCHANGED <<s, dropped, scope, nopens>>
    /\ UNCHANGED <<resolveVars, htmlVars>>

\* the end of the with block: finally: pass
SExit ==
    /\ scope # ""
    /\ scope' = ""
    /\ UNCHANGED <<s, buffer, dropped, log, nopens>>
    /\ UNCHANGED <<resolveVars, htmlVars>>

NextString == SOpen \/ SWrite \/ SExit


-----------------------------------------------------------------------------
(* The HTML writer: _write_begin, _write_row, _write_end *)

Int(x) == [t |-> "int", v |-> x]
Bool(x) == [t |-> "bool", v |-> x]

\* isinstance(v, number_types): bool is a subclass of int
IsNumber(v) == v.t \in {"int", "long", "float", "bool"}

\* isinstance(v, bool)
IsBool(v) == v.t = "bool"

\* text_type(v), and repr(v) as a representation a caller may pass
Represent(rep, v) ==
    IF rep = "repr" /\ v.t = "str" THEN "'" \o v.v \o "'" ELSE v.v

\* for h in flds: f.write(('<th>%s</th>' % h) + lineterminator)
RECURSIVE WriteHeaderCells(_, _, _, _)
WriteHeaderCells(doc, flds, i, lt) ==
    IF i > Len(flds) THEN doc
    ELSE WriteHeaderCells(doc \o "<th>" \o flds[i].v \o "</th>" \o lt, flds, i + 1, lt)

_write_begin(doc, flds, lt, cap) ==
    LET d1 == doc \o "<table class='petl'>" \o lt
        d2 == IF cap # NoneVal THEN d1 \o "<caption>" \o cap.v \o "</caption>" \o lt
              ELSE d1
        d3 == d2 \o "<thead>" \o lt \o "<tr>" \o lt
        d4 == WriteHeaderCells(d3, flds, 1, lt)
    IN  d4 \o "</tr>" \o lt \o "</thead>" \o lt \o "<tbody>" \o lt

\* the cell of _write_row without the test for bool
WriteCellBoolAligned(doc, v, lt, rep) ==
    IF IsNumber(v)
    THEN doc \o "<td style='text-align: right'>" \o Represent(rep, v) \o "</td>" \o lt
    ELSE doc \o "<td>" \o Represent(rep, v) \o "</td>" \o lt

\* the body of `for v in row' in _write_row
WriteCell(doc, v, lt, rep) ==
    IF IsNumber(v) /\ ~IsBool(v)
    THEN doc \o "<td style='text-align: right'>" \o Represent(rep, v) \o "</td>" \o lt
    ELSE doc \o "<td>" \o Represent(rep, v) \o "</td>" \o lt

RECURSIVE WriteCells(_, _, _, _, _)
WriteCells(doc, row, i, lt, rep) ==
    IF i > Len(row) THEN doc
    ELSE WriteCells(WriteCell(doc, row[i], lt, rep), row, i + 1, lt, rep)

_write_row(doc, row, lt, rep) ==
    WriteCells(doc \o "<tr>" \o lt, row, 1, lt, rep) \o "</tr>" \o lt

_write_end(doc, lt) ==
    doc \o "</tbody>" \o lt \o "</table>" \o lt

-----------------------------------------------------------------------------
(* The row sequence and the target stream *)

MaxRows == 2
Values == {Str("a"), Int("1"), Bool("True")}
Headers == {<<Str("foo"), Str("bar")>>}
\* data rows: each kind of value in each place, and a row shorter than the header
DataRows == { <<Str("a"), Int("1")>>, <<Int("1"), Bool("True")>>,
              <<Bool("True"), Str("a")>>, <<Int("1")>> }
RowLists == UNION {[1..n -> DataRows] : n \in 0..MaxRows}
\* a table: the header row, then the data rows; <<>> is a table with no rows
Tables == {<<>>} \cup {<<h>> \o rs : h \in Headers, rs \in RowLists}

Captions == {NoneVal, Str("T")}
Representations == {"text_type", "repr"}
LineTerminators == {"\r\n", "\n"}
Sources == {NoneArg, StrArg("t.html"), StrArg("t.html.gz")}
\* what a row sequence may raise when a row is pulled from it
RowErrors == {"IOError", "ValueError"}

\* The i-th pull from iter(table): the next row or the end of the sequence,
\* unless the row sequence raises.
Pull(tbl, i) ==
    IF i <= Len(tbl) THEN [kind |-> "row", row |-> tbl[i], exc |-> ""]
    ELSE [kind |-> "stop", row |-> <<>>, exc |-> ""]

PullRaises(e) == [kind |-> "raise", row |-> <<>>, exc |-> e]

PullOutcomes(tbl, i) == {Pull(tbl, i)} \cup {PullRaises(e) : e \in RowErrors}

NoStream == [cls |-> "", doc |-> "", closes |-> 0]

\* with source.open_('w') as f, and its exit on any path
ScopeEnter(src) == [cls |-> write_source_from_arg(src).cls, doc |-> "", closes |-> 0]

ScopeExit(fs) ==
    [fs EXCEPT !.closes = IF ClosesOnExit(fs.cls) THEN @ + 1 ELSE @]


-----------------------------------------------------------------------------
(* tohtml *)

\* What the body of the with block comes to: the document written, the
\* error that left the block, the rows pulled.  failAt is the pull at which
\* the row sequence raises e (0: it does not raise).
Ran(d, x, r, n) == [doc |-> d, err |-> x, raised |-> r, pulled |-> n]

TohtmlPull(tbl, i, failAt, e) ==
    IF failAt = i THEN PullRaises(e) ELSE Pull(tbl, i)

\* the loop of tohtml with _write_end run on every exit
RECURSIVE TohtmlRowsEndInFinally(_, _, _, _, _, _, _)
TohtmlRowsEndInFinally(doc, tbl, i, failAt, e, lt, rep) ==
    LET p == TohtmlPull(tbl, i, failAt, e) IN
    IF p.kind = "raise" THEN Ran(_write_end(doc, lt), p.exc, p.exc, i)
    ELSE IF p.kind = "stop" THEN Ran(_write_end(doc, lt), "", "", i)
    ELSE TohtmlRowsEndInFinally(_write_row(doc, p.row, lt, rep), tbl, i + 1,
                                failAt, e, lt, rep)

\* for row in it: _write_row(...), then _write_end(...)
RECURSIVE TohtmlRows(_, _, _, _, _, _, _)
TohtmlRows(doc, tbl, i, failAt, e, lt, rep) ==
    LET p == TohtmlPull(tbl, i, failAt, e) IN
    IF p.kind = "raise" THEN Ran(doc, p.exc, p.exc, i)
    ELSE IF p.kind = "stop" THEN Ran(_write_end(doc, lt), "", "", i)
    ELSE TohtmlRows(_write_row(doc, p.row, lt, rep), tbl, i + 1, failAt, e, lt, rep)

\* it = iter(table); flds = next(it); _write_begin(...); the loop
TohtmlBody(tbl, failAt, e, cap, rep, lt) ==
    LET p == TohtmlPull(tbl, 1, failAt, e) IN
    IF p.kind = "raise" THEN Ran("", p.exc, p.exc, 1)
    ELSE IF p.kind = "stop" THEN Ran("", "StopIteration", "", 1)
    ELSE TohtmlRows(_write_begin("", p.row, lt, cap), tbl, 2, failAt, e, lt, rep)

-----------------------------------------------------------------------------
(* TeeHTMLContainer.__iter__: the generator, one resumption at a time *)

\* A resumption's outcome: the document, the row yielded (none: <<>>), where
\* the generator is left, the error that left it.
Resumed(d, y, at, x, r) == [doc |-> d, yield |-> y, pc |-> at, err |-> x, raised |-> r]

\* The first resumption: flds = next(it); _write_begin(...); yield flds.
\* A StopIteration of next(it) ends the generator (before PEP 479) or
\* becomes a RuntimeError (after it): exhausted is which.
TeeFirstPull(p, lt, cap, exhausted) ==
    IF p.kind = "raise" THEN Resumed("", <<>>, "tee_failed", p.exc, p.exc)
    ELSE IF p.kind = "stop" THEN Resumed("", <<>>, "tee_failed", exhausted, "")
    ELSE Resumed(_write_begin("", p.row, lt, cap), <<p.row>>, "tee_yield", "", "")

\* a resumption that ends without _write_end
TeeAfterPullNoEnd(doc, p, lt, rep) ==
    IF p.kind = "raise" THEN Resumed(doc, <<>>, "tee_failed", p.exc, p.exc)
    ELSE IF p.kind = "stop" THEN Resumed(doc, <<>>, "tee_done", "", "")
    ELSE Resumed(_write_row(doc, p.row, lt, rep), <<p.row>>, "tee_yield", "", "")

\* a resumption that yields the row without _write_row
TeeAfterPullNoWrite(doc, p, lt, rep) ==
    IF p.kind = "raise" THEN Resumed(doc, <<>>, "tee_failed", p.exc, p.exc)
    ELSE IF p.kind = "stop" THEN Resumed(_write_end(doc, lt), <<>>, "tee_done", "", "")
    ELSE Resumed(doc, <<p.row>>, "tee_yield", "", "")

\* A later resumption: the next turn of `for row in it', or _write_end
TeeAfterPull(doc, p, lt, rep) ==
    IF p.kind = "raise" THEN Resumed(doc, <<>>, "tee_failed", p.exc, p.exc)
    ELSE IF p.kind = "stop" THEN Resumed(_write_end(doc, lt), <<>>, "tee_done", "", "")
    ELSE Resumed(_write_row(doc, p.row, lt, rep), <<p.row>>, "tee_yield", "", "")

-----------------------------------------------------------------------------
(* SpecHtml: one call of tohtml, or one iteration of a teehtml table *)

HtmlIdle ==
    /\ table = <<>> /\ source = NoneArg /\ caption = NoneVal
    /\ representation = "text_type" /\ lineterminator = "\r\n"
    /\ pc = "idle" /\ f = NoStream /\ pulled = 0 /\ yielded = <<>>
    /\ raised = "" /\ err = "" /\ exits = 0

InitHtml ==
    /\ table \in Tables /\ source \in Sources /\ caption \in Captions
    /\ representation \in Representations /\ lineterminator \in LineTerminators
    /\ pc = "init" /\ f = NoStream /\ pulled = 0 /\ yielded = <<>>
    /\ raised = "" /\ err = "" /\ exits = 0

htmlInputs == <<table, source, caption, representation, lineterminator>>

\* tohtml(table, source, caption, representation, lineterminator)
Tohtml ==
    /\ pc = "init"
    /\ \E failAt \in 0..(Len(table) + 1), e \in RowErrors :
         LET r == TohtmlBody(table, failAt, e, caption, representation,
                             lineterminator)
         IN  /\ f' = ScopeExit([ScopeEnter(source) EXCEPT !.doc = r.doc])
             /\ err' = r.err
             /\ raised' = r.raised
             /\ pulled' = r.pulled
             /\ pc' = IF r.err = "" THEN "eager_done" ELSE "eager_failed"
    /\ exits' = exits + 1
    /\ UNCHANGED <<htmlInputs, yielded>>
    /\ UNCHANGED <<resolveVars, stringVars>>

\* iter(teehtml(table, ...)): the generator is made, its body has not run
TeeIter ==
    /\ pc = "init"
    /\ pc' = "tee_start"
    /\ UNCHANGED <<htmlInputs, f, pulled, yielded, raised, err, exits>>
    /\ UNCHANGED <<resolveVars, stringVars>>

\* What a resumption that ran to r leaves: the scope is left when the
\* generator ends.
TeeLeave(fs, r) ==
    /\ f' = IF r.pc = "tee_yield" THEN [fs EXCEPT !.doc = r.doc]
            ELSE ScopeExit([fs EXCEPT !.doc = r.doc])
    /\ exits' = IF r.pc = "tee_yield" THEN exits ELSE exits + 1
    /\ yielded' = yielded \o r.yield
    /\ err' = r.err
    /\ raised' = r.raised
    /\ pc' = r.pc
    /\ pulled' = pulled + 1

\* the consumer's first next()
TeeFirst ==
    /\ pc = "tee_start"
    /\ \E p \in PullOutcomes(table, 1), x \in {"StopIteration", "RuntimeError"} :
         TeeLeave(ScopeEnter(source), TeeFirstPull(p, lineterminator, caption, x))
    /\ UNCHANGED htmlInputs
    /\ UNCHANGED <<resolveVars, stringVars>>

\* a later next() of the consumer
TeeResume ==
    /\ pc = "tee_yield"
    /\ \E p \in PullOutcomes(table, pulled + 1) :
         TeeLeave(f, TeeAfterPull(f.doc, p, lineterminator, representation))
    /\ UNCHANGED htmlInputs
    /\ UNCHANGED <<resolveVars, stringVars>>

\* The consumer stops: the generator is closed (or collected) where it is
\* suspended, and GeneratorExit leaves the with block.
TeeClose ==
    /\ pc \in {"tee_start", "tee_yield"}
    /\ f' = IF pc = "tee_yield" THEN ScopeExit(f) ELSE f
    /\ exits' = IF pc = "tee_yield" THEN exits + 1 ELSE exits
    /\ pc' = "tee_closed"
    /\ UNCHANGED <<htmlInputs, pulled, yielded, raised, err>>
    /\ UNCHANGED <<resolveVars, stringVars>>

NextHtml == Tohtml \/ TeeIter \/ TeeFirst \/ TeeResume \/ TeeClose

-----------------------------------------------------------------------------
(* The specifications *)

InitResolveOnly == InitResolve /\ StringIdle /\ HtmlIdle
InitStringOnly == ResolveIdle /\ InitString /\ HtmlIdle
InitHtmlOnly == ResolveIdle /\ StringIdle /\ InitHtml

SpecResolve == InitResolveOnly /\ [][NextResolve]_vars
SpecString == InitStringOnly /\ [][NextString]_vars
SpecHtml == InitHtmlOnly /\ [][NextHtml]_vars


-----------------------------------------------------------------------------
(* The claims *)

\* `sub in x' for a string sub
Contains(x, sub) ==
    \E i \in 1..Len(x) :
        i + Len(sub) - 1 <= Len(x) /\ SubSeq(x, i, i + Len(sub) - 1) = sub

\* the lines of a document, each ended by the line terminator
RECURSIVE Join(_, _)
Join(lines, lt) ==
    IF lines = <<>> THEN "" ELSE Head(lines) \o lt \o Join(Tail(lines), lt)

HeaderSection(flds, cap) ==
    <<"<table class='petl'>">>
    \o (IF cap = NoneVal THEN <<>> ELSE <<"<caption>" \o cap.v \o "</caption>">>)
    \o <<"<thead>", "<tr>">>
    \o [i \in 1..Len(flds) |-> "<th>" \o flds[i].v \o "</th>"]
    \o <<"</tr>", "</thead>", "<tbody>">>

NumericTypes == {"int", "long", "float", "bool"}
RightAligned(v) == v.t \in NumericTypes /\ v.t # "bool"

Formatted(rep, v) ==
    CASE rep = "text_type" -> v.v
      [] rep = "repr" -> IF v.t = "str" THEN "'" \o v.v \o "'" ELSE v.v

RowMarkup(row, rep) ==
    <<"<tr>">>
    \o [i \in 1..Len(row) |->
          (IF RightAligned(row[i]) THEN "<td style='text-align: right'>" ELSE "<td>")
          \o Formatted(rep, row[i]) \o "</td>"]
    \o <<"</tr>">>

RECURSIVE BodyMarkup(_, _)
BodyMarkup(rows, rep) ==
    IF rows = <<>> THEN <<>>
    ELSE RowMarkup(Head(rows), rep) \o BodyMarkup(Tail(rows), rep)

ClosingLines == <<"</tbody>", "</table>">>

HasClosingTag(doc) == Contains(doc, "</tbody>") \/ Contains(doc, "</table>")

\* C1: fully iterating a teehtml table over a row sequence with a header row
\* yields every row of it, header first, unchanged, in order and once each,
\* and leaves in the target the document tohtml writes for the same table,
\* caption, representation and line terminator.
C1_TeeYieldsRowsAndWritesTohtmlDocument ==
    (pc = "tee_done" /\ Len(table) >= 1) =>
        /\ yielded = table
        /\ f.doc = TohtmlBody(table, 0, "", caption, representation,
                              lineterminator).doc

C1_Witness ==
    /\ pc = "tee_done" /\ Len(table) = 3 /\ caption # NoneVal
    /\ representation = "repr" /\ lineterminator = "\n"

\* C7: when a pull from the row sequence raises, in tohtml or in the
\* iteration of a teehtml table, on the header or on a later row, the error
\* reaches the caller unchanged, no </tbody> or </table> line is written, and
\* the with scope of the target is left exactly once, which closes the stream
\* of a target that closes on release exactly once.
C7_RowErrorPropagatesAndTargetIsReleased ==
    (pc \in {"eager_failed", "tee_failed"} /\ raised # "") =>
        /\ err = raised
        /\ ~HasClosingTag(f.doc)
        /\ exits = 1
        /\ f.closes = IF ClosesOnExit(f.cls) THEN 1 ELSE 0

C7_Witness ==
    /\ pc = "eager_failed" /\ raised = "ValueError" /\ pulled = 3
    /\ Len(table) = 3 /\ f.cls = "GzipSource" /\ f.closes = 1

\* C8: the document tohtml writes for a row sequence with a header row is,
\* each line ended by the line terminator: the table-open line, the caption
\* line if and only if a caption is given, the header section with a <th>
\* per field, per data row in order <tr>, a cell per value and </tr>, a cell
\* right-aligned if and only if its value is numeric and not a boolean, then
\* </tbody> and </table>.
C8_TohtmlDocument ==
    pc = "eager_done" =>
        f.doc = Join(HeaderSection(table[1], caption)
                     \o BodyMarkup(Tail(table), representation)
                     \o ClosingLines, lineterminator)

C8_Witness ==
    /\ pc = "eager_done" /\ Len(table) = 3 /\ caption # NoneVal
    /\ \E i \in 2..3 : \E j \in 1..Len(table[i]) : table[i][j].t = "bool"
    /\ \E i \in 2..3 : \E j \in 1..Len(table[i]) : table[i][j].t = "int"

\* C9: while the generator of a teehtml table is suspended after the
\* consumer received k >= 1 rows, those are the first k rows of the table,
\* the document is the header section and the markup of the k-1 data rows
\* received, and the target scope has not been left nor the stream closed;
\* a closing line is in the document only once a pull found the input
\* exhausted, so a consumer that stops early leaves none.
C9_TeeWritesOneRowPerResumption ==
    /\ pc = "tee_yield" =>
        /\ Len(yielded) >= 1
        /\ pulled = Len(yielded)
        /\ yielded = SubSeq(table, 1, Len(yielded))
        /\ f.doc = Join(HeaderSection(yielded[1], caption)
                        \o BodyMarkup(Tail(yielded), representation),
                        lineterminator)
        /\ exits = 0 /\ f.closes = 0
    /\ (pc \in {"tee_start", "tee_yield", "tee_done", "tee_failed", "tee_closed"}
        /\ HasClosingTag(f.doc)) =>
        /\ pc = "tee_done"
        /\ pulled = Len(table) + 1
    /\ pc = "tee_closed" => ~HasClosingTag(f.doc)

C9_Witness ==
    /\ pc = "tee_closed" /\ Len(yielded) = 2 /\ Len(table) = 3 /\ exits = 1


Last(l) == l[Len(l)]

\* C2: for a StringSource, once a write-open scope has written w, getvalue()
\* returns w; and when the next open_ is an append-open whose scope writes a,
\* getvalue() returns w followed by a.
C2_WriteThenAppendRoundTrip ==
    /\ (Len(log) >= 1 /\ IsWriteMode(Last(log).mode)) =>
          /\ Last(log).exc = ""
          /\ getvalue(buffer) = Str(Last(log).written)
    /\ (Len(log) = 2 /\ IsWriteMode(log[1].mode) /\ IsAppendMode(log[2].mode)) =>
          /\ log[2].exc = ""
          /\ getvalue(buffer) = Str(log[1].written \o log[2].written)

C2_Witness ==
    /\ Len(log) = 2 /\ scope = ""
    /\ log[1].mode = "w" /\ log[1].written = "x"
    /\ log[2].mode = "a" /\ log[2].written = "yz"
    /\ getvalue(buffer) = Str("xyz")

\* C3: an append-open of a StringSource reuses the buffer when there is one,
\* and when there is none it succeeds and yields a fresh empty buffer, a
\* BytesIO or a StringIO by the mode's b flag.
C3_AppendOpenReusesOrStartsFresh ==
    (Len(log) >= 1 /\ IsAppendMode(Last(log).mode)) =>
        /\ Last(log).exc = ""
        /\ Last(log).prev # NoBuffer => buffer.id = Last(log).prev.id
        /\ Last(log).prev = NoBuffer =>
              /\ buffer.id = nopens
              /\ buffer.data = Last(log).written
              /\ buffer.kind = IF In("b", Last(log).mode) THEN "BytesIO" ELSE "StringIO"

\* C5 as stated: opening a StringSource made with no content in a write or
\* append mode fails.
C5_NoContentWriteOpenFails ==
    (Len(log) >= 1 /\ s = NoneVal
     /\ (IsWriteMode(Last(log).mode) \/ IsAppendMode(Last(log).mode))) =>
        Last(log).exc # ""

\* C5 as amended: on a StringSource made with no content, a read-open fails
\* with 'no string data supplied' and yields nothing, a write-open succeeds
\* and yields a fresh empty buffer, and an append-open that finds a buffer
\* succeeds and yields that buffer.
C5_NoContentOnlyReadOpenFails ==
    (Len(log) >= 1 /\ s = NoneVal) =>
        /\ IsReadMode(Last(log).mode) =>
              /\ Last(log).exc = "Exception"
              /\ Last(log).msg = "no string data supplied"
              /\ scope = ""
        /\ IsWriteMode(Last(log).mode) =>
              /\ Last(log).exc = ""
              /\ buffer.id = nopens
              /\ buffer.data = Last(log).written
        /\ (IsAppendMode(Last(log).mode) /\ Last(log).prev # NoBuffer) =>
              /\ Last(log).exc = ""
              /\ buffer.id = Last(log).prev.id

C5_Witness ==
    /\ s = NoneVal /\ Len(log) = 2
    /\ log[1].mode = "r" /\ log[1].exc = "Exception"
    /\ log[2].mode = "wb" /\ log[2].exc = "" /\ log[2].written = "yz"

\* C10: on a StringSource made with content s a read-open installs a new
\* buffer over s and does not close the one it replaces, so getvalue()
\* returns s whatever earlier scopes wrote; on one made with no content a
\* read-open fails and leaves the buffer, and what getvalue() returns, as
\* they were.
C10_ReadOpenInstallsFreshBufferOverContent ==
    (Len(log) >= 1 /\ IsReadMode(Last(log).mode)) =>
        /\ s # NoneVal =>
              /\ Last(log).exc = ""
              /\ buffer.id = nopens
              /\ buffer.id # Last(log).prev.id
              /\ dropped = Last(log).prev
              /\ ~dropped.closed
              /\ getvalue(buffer) = s
        /\ s = NoneVal =>
              /\ Last(log).exc # ""
              /\ buffer = Last(log).prev
              /\ getvalue(buffer) = getvalue(Last(log).prev)

C10_Witness ==
    /\ s = Str("ab") /\ Len(log) = 2
    /\ IsAppendMode(log[1].mode) /\ log[1].written = "x" /\ log[1].exc = ""
    /\ log[2].mode = "r" /\ log[2].prev.data # "ab"
    /\ getvalue(buffer) = Str("ab")

\* C4: entering the open scope of a standard-input, URL or subprocess target
\* with a mode that is not a read mode fails and yields no stream, and no
\* request is issued and no process spawned by an open that fails; entering
\* that of a standard-output target with a read mode fails; a read mode on
\* standard input yields sys.stdin and a write or append mode on standard
\* output yields sys.stdout.
C4_ModeLegality ==
    /\ (rpc \in {"open", "openfailed"}
        /\ target.cls \in {"StdinSource", "URLSource", "PopenSource"}
        /\ ~IsReadMode(rmode)) =>
          rpc = "openfailed" /\ operr = "source is read-only" /\ stream = ""
    /\ (rpc \in {"open", "openfailed"} /\ target.cls = "StdoutSource"
        /\ IsReadMode(rmode)) =>
          rpc = "openfailed" /\ operr = "source is write-only" /\ stream = ""
    /\ (rpc \in {"open", "openfailed"} /\ target.cls = "StdinSource"
        /\ IsReadMode(rmode)) =>
          rpc = "open" /\ stream = "sys.stdin"
    /\ (rpc \in {"open", "openfailed"} /\ target.cls = "StdoutSource"
        /\ (IsWriteMode(rmode) \/ IsAppendMode(rmode))) =>
          rpc = "open" /\ stream = "sys.stdout"
    /\ requests = IF target.cls = "URLSource" THEN entered ELSE 0
    /\ spawned = IF target.cls = "PopenSource" THEN entered ELSE 0

C4_Witness ==
    /\ rpc = "openfailed" /\ target.cls = "PopenSource" /\ rmode = "ab"
    /\ attempts = 2 /\ entered = 1 /\ spawned = 1

UrlPrefixed(p) ==
    StartsWith(p, "http://") \/ StartsWith(p, "https://") \/ StartsWith(p, "ftp://")

DocumentedVariant(fac, p) ==
    IF fac = "read" /\ UrlPrefixed(p) THEN "URLSource"
    ELSE IF EndsWith(p, ".gz") \/ EndsWith(p, ".bgz") THEN "GzipSource"
    ELSE IF EndsWith(p, ".bz2") THEN "BZ2Source"
    ELSE "FileSource"

\* the parts of C6 about None, a string and a value with a callable open_
FactoriesSelectDocumentedVariant ==
    rpc \in {"resolved", "failed"} =>
        /\ arg.t = "none" =>
              /\ target.exc = ""
              /\ target.cls = IF factory = "read" THEN "StdinSource" ELSE "StdoutSource"
        /\ arg.t = "str" =>
              /\ target.exc = "" /\ target.init = arg
              /\ target.cls = DocumentedVariant(factory, arg.v)
        /\ (arg.t \notin {"none", "str"} /\ arg.open_ = "method") =>
              target.exc = "" /\ target.same /\ target.init = arg

\* the last part of C6, for the values that are not tuples
FactoriesRejectOtherValuesButTuples ==
    (rpc \in {"resolved", "failed"} /\ arg.t = "obj" /\ arg.open_ # "method") =>
        /\ target.exc = "AssertionError"
        /\ target.msg = _invalid_source_msg \o arg.v

\* C6: each factory returns the documented variant for None and for a
\* string, returns a value with a callable open_ unchanged, and fails for any
\* other value with the invalid-argument error that names the value.
C6_FactoriesTotalAndSelectDocumentedVariant ==
    /\ FactoriesSelectDocumentedVariant
    /\ (rpc \in {"resolved", "failed"} /\ arg.t \notin {"none", "str"}
        /\ arg.open_ # "method") =>
          /\ target.exc = "AssertionError"
          /\ target.msg = _invalid_source_msg \o arg.v


=============================================================================
